---------------------------- MODULE Spec2Model ----------------------------
(***************************************************************************)
(* A model of the cascading-markup transpiler: the position bookkeeping of *)
(* AstSource, the selector and text grammars of AstElementNode and         *)
(* AstTextNode, and the scan loop of AstFileNode.parse.                     *)
(*                                                                         *)
(* A source is a sequence of one-character strings.  Indices are those of  *)
(* the code (0-based); the character at index k is code[k + 1].            *)
(***************************************************************************)
EXTENDS Integers, Sequences, FiniteSets, TLC

VARIABLES
    code,         \* AstSource.code: the full source of the file
    i,            \* the scan cursor of AstFileNode.parse
    currentNode,  \* AstFileNode.parse: currentNode (an id into nodes)
    scope,        \* AstFileNode.parse: scope (an id into nodes)
    nodes,        \* the node objects created so far; nodes[1] is the file
    status,       \* where the running operation stands
    position,     \* AstSource._position of the source under test
    result,       \* the value the operation called last returned, <<>> for none
    blocks,       \* history: the nodes that opened the blocks still open
    tok           \* history: the tokens consumed, or the calls made, so far

vars == <<code, i, currentNode, scope, nodes, status, position, result, blocks, tok>>

-----------------------------------------------------------------------------
(* Characters *)

DQ == "\""
SQ == "'"
BSL == "\\"
LF == "\n"
CR == "\r"
SP == " "

Quotes == {DQ, SQ}

\* What /\s/ matches, among the characters of the model.
WhiteSpace == {SP, LF, CR}

\* What /./u does not match (no s flag).
LineTerminators == {LF, CR}

\* The value NaN of the code.
NaN == "NaN"

\* All sequences over S of length at most n.
SeqsUpTo(S, n) == UNION {[1..k -> S] : k \in 0..n}

\* s.slice(from, to) for 0 <= from <= to <= s.length.
Slice(s, from, to) == SubSeq(s, from + 1, to)

Last(s) == s[Len(s)]

Max(S) == CHOOSE m \in S : \A k \in S : k <= m

-----------------------------------------------------------------------------
(* Strings *)

Min(S) == CHOOSE m \in S : \A k \in S : m <= k

\* The UTF-16 code unit of a character of the model.
CharCode(c) ==
    CASE c = LF -> 10 [] c = CR -> 13 [] c = SP -> 32 [] c = DQ -> 34
      [] c = "#" -> 35 [] c = SQ -> 39 [] c = "." -> 46 [] c = ";" -> 59
      [] c = "=" -> 61 [] c = "[" -> 91 [] c = BSL -> 92 [] c = "]" -> 93
      [] c = "a" -> 97 [] c = "b" -> 98 [] c = "c" -> 99 [] c = "d" -> 100
      [] c = "f" -> 102 [] c = "i" -> 105 [] c = "l" -> 108 [] c = "o" -> 111
      [] c = "q" -> 113 [] c = "r" -> 114 [] c = "s" -> 115 [] c = "u" -> 117
      [] c = "v" -> 118 [] c = "x" -> 120 [] c = "z" -> 122
      [] c = "{" -> 123 [] c = "}" -> 125

\* The place of a character in the order String.prototype.localeCompare
\* uses (the root collation: white space, punctuation, symbols, letters).
CollationRank(c) ==
    CASE c = LF -> 1 [] c = CR -> 2 [] c = SP -> 3 [] c = ";" -> 4
      [] c = "." -> 5 [] c = SQ -> 6 [] c = DQ -> 7 [] c = "[" -> 8
      [] c = "]" -> 9 [] c = "{" -> 10 [] c = "}" -> 11 [] c = BSL -> 12
      [] c = "#" -> 13 [] c = "=" -> 14
      [] c = "a" -> 20 [] c = "b" -> 21 [] c = "c" -> 22 [] c = "d" -> 23
      [] c = "f" -> 24 [] c = "i" -> 25 [] c = "l" -> 26 [] c = "o" -> 27
      [] c = "q" -> 28 [] c = "r" -> 29 [] c = "s" -> 30 [] c = "u" -> 31
      [] c = "v" -> 32 [] c = "x" -> 33 [] c = "z" -> 34

\* a < b for the default comparison of Array.prototype.sort: by code units.
CodeUnitLess(a, b) ==
    \E k \in 1..(Len(a) + 1) :
        /\ k <= Len(b)
        /\ \A j \in 1..(k - 1) : a[j] = b[j]
        /\ k = Len(a) + 1 \/ CharCode(a[k]) < CharCode(b[k])

\* a.localeCompare(b) > 0.
LocaleCompareGreater(a, b) ==
    \E k \in 1..(Len(b) + 1) :
        /\ k <= Len(a)
        /\ \A j \in 1..(k - 1) : a[j] = b[j]
        /\ k = Len(b) + 1 \/ CollationRank(b[k]) < CollationRank(a[k])

\* s.split(sep) for a one-character separator.
RECURSIVE SplitOn(_, _)
SplitOn(s, sep) ==
    LET at == {k \in 1..Len(s) : s[k] = sep}
    IN  IF at = {} THEN <<s>>
        ELSE LET k == Max(at)
             IN  Append(SplitOn(SubSeq(s, 1, k - 1), sep), SubSeq(s, k + 1, Len(s)))

\* x put into the sorted sequence of strings xs, after the elements not
\* greater than it.
RECURSIVE InsertString(_, _)
InsertString(xs, x) ==
    IF xs = <<>> THEN <<x>>
    ELSE IF CodeUnitLess(x, Last(xs))
         THEN Append(InsertString(SubSeq(xs, 1, Len(xs) - 1), x), Last(xs))
         ELSE Append(xs, x)

\* xs.sort() on an array of strings.
RECURSIVE SortStrings(_)
SortStrings(xs) ==
    IF xs = <<>> THEN <<>>
    ELSE InsertString(SortStrings(SubSeq(xs, 1, Len(xs) - 1)), Last(xs))

\* xs.join(' ').
RECURSIVE JoinSpace(_)
JoinSpace(xs) ==
    IF xs = <<>> THEN <<>>
    ELSE IF Len(xs) = 1 THEN xs[1]
         ELSE JoinSpace(SubSeq(xs, 1, Len(xs) - 1)) \o <<SP>> \o Last(xs)

\* s.trim().
Trim(s) ==
    LET solid == {k \in 1..Len(s) : s[k] \notin WhiteSpace}
    IN  IF solid = {} THEN <<>> ELSE SubSeq(s, Min(solid), Max(solid))

-----------------------------------------------------------------------------
(* AstSource *)

\* s.split(/\r?\n/u): the segments between line breaks; a CR just before an
\* LF belongs to the line break.
RECURSIVE SplitLines(_)
SplitLines(s) ==
    LET lfs == {k \in 1..Len(s) : s[k] = LF}
    IN  IF lfs = {} THEN <<s>>
        ELSE LET k == Max(lfs)
                 head == SubSeq(s, 1, k - 1)
                 before == IF head # <<>> /\ Last(head) = CR
                           THEN SubSeq(head, 1, Len(head) - 1)
                           ELSE head
             IN  Append(SplitLines(before), SubSeq(s, k + 1, Len(s)))

\* The position a freshly constructed source holds, AstSource(node, NaN, NaN):
\* no comparison with NaN is true, and slice(NaN, NaN) is empty.
NaNPosition ==
    [end    |-> [column |-> 1, index |-> NaN, line |-> 1],
     length |-> NaN,
     start  |-> [column |-> 1, index |-> NaN, line |-> 1]]

\* The end column as updatePosition computes it: from the slice that starts
\* at startIndex.
EndColumn(c, startIndex, endIndex) ==
    Len(Last(SplitLines(Slice(c, startIndex, endIndex)))) + 1

\* updatePosition refusing the empty range too (>= for >).
UpdatePositionThrowsStrict(c, startIndex, endIndex) ==
    \/ startIndex >= endIndex
    \/ startIndex < 0
    \/ endIndex > Len(c)

\* The three throws of updatePosition.
UpdatePositionThrows(c, startIndex, endIndex) ==
    \/ startIndex > endIndex
    \/ startIndex < 0
    \/ endIndex > Len(c)

\* The record updatePosition stores.
ComputePosition(c, startIndex, endIndex) ==
    [end    |-> [column |-> EndColumn(c, startIndex, endIndex),
                 index  |-> endIndex,
                 line   |-> Len(SplitLines(Slice(c, 0, endIndex)))],
     length |-> endIndex - startIndex,
     start  |-> [column |-> Len(Last(SplitLines(Slice(c, 0, startIndex)))) + 1,
                 index  |-> startIndex,
                 line   |-> Len(SplitLines(Slice(c, 0, startIndex)))]]

\* The number of line feeds of c between index from (included) and index to
\* (excluded).
LineFeeds(c, from, to) == Cardinality({k \in (from + 1)..to : c[k] = LF})

\* indexFromLineNumber with greedy repetitions ([\s\S]*\n): the match runs
\* to the last line feed.
IndexFromLineNumberGreedy(c, line) ==
    IF LineFeeds(c, 0, Len(c)) < line - 1 THEN Len(c) + 1
    ELSE IF line = 1 THEN 0
    ELSE Max({k \in 1..Len(c) : c[k] = LF})

\* code.match(/(?:[\s\S]*?\n){line - 1}/gu)?.[0]?.length ?? code.length + 1:
\* the first match starts at the first index with line - 1 line feeds after
\* it, and each lazy repetition stops at the next line feed.
IndexFromLineNumber(c, line) ==
    LET starts == {p \in 0..Len(c) : LineFeeds(c, p, Len(c)) >= line - 1}
    IN  IF starts = {} THEN Len(c) + 1
        ELSE LET p == Min(starts)
                 ends == {q \in p..Len(c) : LineFeeds(c, p, q) = line - 1}
             IN  Min(ends) - p

-----------------------------------------------------------------------------
(* The text grammar: AstTextNode.parse *)

\* The number of backslashes that stand just before position q of s, in a
\* string opened at position p.
BackslashesBefore(s, p, q) ==
    (q - 1) - Max({k \in p..(q - 1) : s[k] # BSL})

\* Whether the quote opened at position p can close at position q: the same
\* quotation mark (\2), no line terminator in between (.*?), and not after a
\* character other than a backslash followed by an odd number of backslashes
\* (the negative lookbehind).
ClosesAt(s, p, q) ==
    /\ s[q] = s[p]
    /\ BackslashesBefore(s, p, q) % 2 = 0
    /\ \A k \in (p + 1)..(q - 1) : s[k] \notin LineTerminators

\* The positions at which the string opened at position p can close.
StringCloses(s, p) ==
    IF p <= Len(s) /\ s[p] \in Quotes
    THEN {q \in (p + 1)..Len(s) : ClosesAt(s, p, q)}
    ELSE {}

\* The closing quote taken were .* greedy: the last one.
TextMatchEndGreedy(s, p) ==
    IF StringCloses(s, p) = {} THEN 0 ELSE Max(StringCloses(s, p))

\* The position of the closing quote of the text node that starts at
\* position p (the lazy .*? takes the first one), 0 when the regular
\* expression does not match.
TextMatchEnd(s, p) ==
    IF StringCloses(s, p) = {} THEN 0 ELSE Min(StringCloses(s, p))

-----------------------------------------------------------------------------
(* The selector grammar: AstElementNode.parse and parseAttributes *)

\* (?![#.[\]{};])\S
NameChar(c) ==
    c \notin WhiteSpace /\ c \notin {"#", ".", "[", "]", "{", "}", ";"}

\* The position after the longest run of name characters from position p.
NameRunEnd(s, p) ==
    Min({q \in p..(Len(s) + 1) : q = Len(s) + 1 \/ ~NameChar(s[q])})

\* (?:\.(?:name character)+)+ from position p: the position after it, p when
\* it does not match.
RECURSIVE ClassRunEnd(_, _)
ClassRunEnd(s, p) ==
    IF p <= Len(s) /\ s[p] = "." /\ NameRunEnd(s, p + 1) > p + 1
    THEN ClassRunEnd(s, NameRunEnd(s, p + 1))
    ELSE p

\* (?:string|.)*?\] from position p: the position of the closing bracket the
\* regular expression settles on, 0 when it cannot match.  At each position
\* it first tries to end, then a quoted string (each of its possible ends, in
\* order), then any one character that is no line terminator.
RECURSIVE AttrClose(_, _)
AttrClose(s, p) ==
    IF p > Len(s) THEN 0
    ELSE IF s[p] = "]" THEN p
    ELSE LET good == {q \in StringCloses(s, p) : AttrClose(s, q + 1) # 0}
         IN  IF good # {} THEN AttrClose(s, Min(good) + 1)
             ELSE IF s[p] \in LineTerminators THEN 0
             ELSE AttrClose(s, p + 1)

\* The groups of the selector expression matched at position p: matched is
\* the lookahead (?=[^\s{]); each group is the text it captured, <<>> when
\* the group did not take part (undefined).
SelectorGroups(s, p) ==
    LET tagEnd == NameRunEnd(s, p)
        idEnd == IF /\ tagEnd <= Len(s)
                    /\ s[tagEnd] = "#"
                    /\ NameRunEnd(s, tagEnd + 1) > tagEnd + 1
                 THEN NameRunEnd(s, tagEnd + 1)
                 ELSE tagEnd
        classEnd == ClassRunEnd(s, idEnd)
        close == IF classEnd <= Len(s) /\ s[classEnd] = "["
                 THEN AttrClose(s, classEnd + 1)
                 ELSE 0
        attrEnd == IF close # 0 THEN close + 1 ELSE classEnd
    IN  IF p <= Len(s) /\ s[p] \notin WhiteSpace /\ s[p] # "{"
        THEN [matched |-> TRUE,
              selector |-> SubSeq(s, p, attrEnd - 1),
              tagName |-> SubSeq(s, p, tagEnd - 1),
              id |-> SubSeq(s, tagEnd, idEnd - 1),
              classNames |-> SubSeq(s, idEnd, classEnd - 1),
              attributeSelector |-> SubSeq(s, classEnd, attrEnd - 1)]
        ELSE [matched |-> FALSE, selector |-> <<>>, tagName |-> <<>>,
              id |-> <<>>, classNames |-> <<>>, attributeSelector |-> <<>>]

\* [^=\s]
KeyChar(c) == c # "=" /\ c \notin WhiteSpace

\* The position after the longest run of white space from position p.
SpaceRunEnd(t, p) ==
    Min({q \in p..(Len(t) + 1) : q = Len(t) + 1 \/ t[q] \notin WhiteSpace})

\* The position after the longest run of characters that are no white space.
SolidRunEnd(t, p) ==
    Min({q \in p..(Len(t) + 1) : q = Len(t) + 1 \/ t[q] \in WhiteSpace})

\* One match of the attribute expression whose key starts at position p of t:
\* the key, the value (quotedValue ?? unquotedValue ?? '') and the position
\* after the match.
AttributeAt(t, p) ==
    LET keyEnd == Min({q \in p..(Len(t) + 1) : q = Len(t) + 1 \/ ~KeyChar(t[q])})
        eq == SpaceRunEnd(t, keyEnd)
        val == SpaceRunEnd(t, eq + 1)
        key == SubSeq(t, p, keyEnd - 1)
    IN  IF eq <= Len(t) /\ t[eq] = "=" /\ val <= Len(t)
        THEN IF TextMatchEnd(t, val) # 0
             THEN [key |-> key,
                   value |-> SubSeq(t, val + 1, TextMatchEnd(t, val) - 1),
                   next |-> TextMatchEnd(t, val) + 1]
             ELSE [key |-> key,
                   value |-> SubSeq(t, val, SolidRunEnd(t, val) - 1),
                   next |-> SolidRunEnd(t, val)]
        ELSE [key |-> key, value |-> <<>>, next |-> keyEnd]

\* matchAll of the attribute expression on t, from position p on.
RECURSIVE AttributeMatches(_, _)
AttributeMatches(t, p) ==
    LET starts == {q \in p..Len(t) : KeyChar(t[q])}
    IN  IF starts = {} THEN <<>>
        ELSE LET m == AttributeAt(t, Min(starts))
             IN  <<[key |-> m.key, value |-> m.value]>>
                     \o AttributeMatches(t, m.next)

\* x put into the sequence of attributes xs sorted by key, after the
\* attributes whose key is not greater (the sort is stable).
RECURSIVE InsertAttribute(_, _)
InsertAttribute(xs, x) ==
    IF xs = <<>> THEN <<x>>
    ELSE IF LocaleCompareGreater(Last(xs).key, x.key)
         THEN Append(InsertAttribute(SubSeq(xs, 1, Len(xs) - 1), x), Last(xs))
         ELSE Append(xs, x)

\* attributes.sort((a, b) => a.key.localeCompare(b.key)).
RECURSIVE SortByKey(_)
SortByKey(xs) ==
    IF xs = <<>> THEN <<>>
    ELSE InsertAttribute(SortByKey(SubSeq(xs, 1, Len(xs) - 1)), Last(xs))

KeyId == <<"i", "d">>

KeyClass == <<"c", "l", "a", "s", "s">>

\* The value of the class attribute: classNames.split('.').sort().join(' ').trim().
ClassValue(classNames) ==
    Trim(JoinSpace(SortStrings(SplitOn(classNames, "."))))

\* The attributes in the order parseAttributes pushes them.
PushedAttributes(id, classNames, attributeSelector) ==
    (IF id # <<>> THEN <<[key |-> KeyId, value |-> id]>> ELSE <<>>)
    \o (IF classNames # <<>>
        THEN <<[key |-> KeyClass, value |-> ClassValue(classNames)]>>
        ELSE <<>>)
    \o (IF attributeSelector # <<>>
        THEN AttributeMatches(
                 SubSeq(attributeSelector, 2, Len(attributeSelector) - 1), 1)
        ELSE <<>>)

\* parseAttributes returning the attributes as pushed, the sort left out.
ParseAttributesUnsorted(id, classNames, attributeSelector) ==
    PushedAttributes(id, classNames, attributeSelector)

\* parseAttributes(id, classNames, attributeSelector).
ParseAttributes(id, classNames, attributeSelector) ==
    SortByKey(PushedAttributes(id, classNames, attributeSelector))

-----------------------------------------------------------------------------
(* Nodes *)

\* new AstFileNode(code): the root; it has no parent (0) and is its own scope.
FileNode(c) ==
    [type |-> "File", name |-> <<>>, parent |-> 0, scope |-> 1,
     attributes |-> <<>>, children |-> <<>>,
     position |-> ComputePosition(c, 0, Len(c))]

\* The node AstTextNode.parse(parentNode, scope, startIndex) returns when the
\* text expression matches: its name is stringContent, its span wholeMatch.
TextParse(c, parentNode, scopeNode, startIndex) ==
    LET close == TextMatchEnd(c, startIndex + 1)
    IN  [type |-> "Text",
         name |-> SubSeq(c, startIndex + 2, close - 1),
         parent |-> parentNode, scope |-> scopeNode,
         attributes |-> <<>>, children |-> <<>>,
         position |-> ComputePosition(c, startIndex, close)]

TagDiv == <<"d", "i", "v">>

\* The node AstElementNode.parse(parentNode, scope, startIndex) returns when
\* the selector expression matches.
ElementParse(c, parentNode, scopeNode, startIndex) ==
    LET g == SelectorGroups(c, startIndex + 1)
    IN  [type |-> "Element",
         name |-> IF g.tagName # <<>> THEN g.tagName ELSE TagDiv,
         parent |-> parentNode, scope |-> scopeNode,
         attributes |-> ParseAttributes(g.id, g.classNames, g.attributeSelector),
         children |-> <<>>,
         position |-> ComputePosition(c, startIndex, startIndex + Len(g.selector))]

\* addChild putting the node first among the children (unshift for push).
AddChildFirst(ns, parentNode, node) ==
    [Append(ns, [node EXCEPT !.parent = parentNode])
        EXCEPT ![parentNode].children = <<Len(ns) + 1>> \o @]

\* parent.addChild(node) for a parent that is a file or an element: the node
\* gets the next id and becomes the last child.
AddChild(ns, parentNode, node) ==
    [Append(ns, [node EXCEPT !.parent = parentNode])
        EXCEPT ![parentNode].children = Append(@, Len(ns) + 1)]

-----------------------------------------------------------------------------
(* encode, and the innerHtml of a text node *)

LtEntity == <<"&", "l", "t", ";">>
GtEntity == <<"&", "g", "t", ";">>
AmpEntity == <<"&", "a", "m", "p", ";">>
QuotEntity == <<"&", "q", "u", "o", "t", ";">>
Br == <<"<", "b", "r", ">">>

\* What the callback of encode returns for one matched character; the
\* characters /[<>&"]/ does not match stay as they are.
EncodeChar(c) ==
    CASE c = "<" -> LtEntity
      [] c = ">" -> GtEntity
      [] c = "&" -> AmpEntity
      [] c = DQ -> QuotEntity
      [] OTHER -> <<c>>

\* encode(text) of Ast/encode.ts: text.replace(/[<>&"]/gu, callback), one
\* pass over the text.
RECURSIVE Encode(_)
Encode(text) ==
    IF text = <<>> THEN <<>>
    ELSE EncodeChar(Head(text)) \o Encode(Tail(text))

\* text.replaceAll(c, by) for a one-character c.
RECURSIVE ReplaceAll(_, _, _)
ReplaceAll(text, c, by) ==
    IF text = <<>> THEN <<>>
    ELSE (IF Head(text) = c THEN by ELSE <<Head(text)>>)
             \o ReplaceAll(Tail(text), c, by)

\* encode(text) written as four replaceAll in a row, and encodeString(str)
\* of stringify: '<', then '>', then '&', then '"', each over the result of
\* the one before.
EncodeReplaceAll(text) ==
    ReplaceAll(ReplaceAll(ReplaceAll(ReplaceAll(text, "<", LtEntity),
                                     ">", GtEntity),
                          "&", AmpEntity),
               DQ, QuotEntity)

\* encodeString(str) of stringify: the same four replaceAll in a row.
EncodeString(str) ==
    ReplaceAll(ReplaceAll(ReplaceAll(ReplaceAll(str, "<", LtEntity),
                                     ">", GtEntity),
                          "&", AmpEntity),
               DQ, QuotEntity)

\* The length of the run of backslashes of s that starts at position p.
BackslashRun(s, p) ==
    Min({q \in p..(Len(s) + 1) : q = Len(s) + 1 \/ s[q] # BSL}) - p

\* /\\(?:\\\\)*n/u matches at position p of s: an odd number of backslashes
\* and an n.
EscapeAt(s, p) ==
    /\ BackslashRun(s, p) % 2 = 1
    /\ p + BackslashRun(s, p) <= Len(s)
    /\ s[p + BackslashRun(s, p)] = "n"

\* name.split(/(?<characterEscape>\\(?:\\\\)*n)/u): the pieces between the
\* matches, with each match (the captured group) between them.
RECURSIVE SplitEscapes(_)
SplitEscapes(s) ==
    LET at == {p \in 1..Len(s) : EscapeAt(s, p)}
    IN  IF at = {} THEN <<s>>
        ELSE LET p == Min(at)
                 last == p + BackslashRun(s, p)
             IN  <<SubSeq(s, 1, p - 1), SubSeq(s, p, last)>>
                     \o SplitEscapes(SubSeq(s, last + 1, Len(s)))

\* The callback of forEach with the line break encoded like any other part.
PartHtmlEncodedBreak(part) ==
    IF part # <<>> /\ Head(part) = BSL THEN Encode(Tail(part)) ELSE Encode(part)

\* What the callback of forEach adds to text for one part.
PartHtml(part) ==
    IF part = <<BSL, "n">> THEN Br
    ELSE IF part # <<>> /\ Head(part) = BSL THEN Encode(Tail(part))
    ELSE Encode(part)

\* The parts rendered one after the other.
RECURSIVE PartsHtml(_)
PartsHtml(parts) ==
    IF parts = <<>> THEN <<>>
    ELSE PartHtml(Head(parts)) \o PartsHtml(Tail(parts))

\* AstTextNode.innerHtml
TextInnerHtml(name) == PartsHtml(SplitEscapes(name))

\* AstTextNode.outerHtml
TextOuterHtml(name) == TextInnerHtml(name)

-----------------------------------------------------------------------------
(* The outerHtml of an element and of the file *)

\* voidElements
VoidElements ==
    {<<"a", "r", "e", "a">>,
     <<"b", "a", "s", "e">>,
     <<"b", "r">>,
     <<"c", "o", "l">>,
     <<"e", "m", "b", "e", "d">>,
     <<"h", "r">>,
     <<"i", "m", "g">>,
     <<"k", "e", "y", "g", "e", "n">>,
     <<"i", "n", "p", "u", "t">>,
     <<"l", "i", "n", "k">>,
     <<"m", "e", "t", "a">>,
     <<"p", "a", "r", "a", "m">>,
     <<"s", "o", "u", "r", "c", "e">>,
     <<"t", "r", "a", "c", "k">>,
     <<"w", "b", "r">>}

\* c.toLowerCase(), for the letters of the model.
LowerChar(c) == IF c = "A" THEN "a" ELSE IF c = "B" THEN "b" ELSE c

\* s.toLowerCase()
ToLowerCase(s) == [k \in 1..Len(s) |-> LowerChar(s[k])]

\* The callback of attributes.map with the comparison of value and key made
\* without toLowerCase.
AttributeHtmlCaseSensitive(attribute) ==
    LET encodedValue == Encode(attribute.value)
    IN  IF attribute.value = <<>> \/ attribute.value = attribute.key
        THEN attribute.key
        ELSE IF \E k \in 1..Len(encodedValue) :
                    encodedValue[k] \in {"<", ">", SQ, DQ} \cup WhiteSpace
             THEN attribute.key \o <<"=", DQ>> \o encodedValue \o <<DQ>>
             ELSE attribute.key \o <<"=">> \o encodedValue

\* The callback of attributes.map in outerHtml: the short form key for a
\* boolean attribute, key="value" when the encoded value matches
\* /[<>'"\s]/u, key=value otherwise.
AttributeHtml(attribute) ==
    LET encodedValue == Encode(attribute.value)
    IN  IF \/ attribute.value = <<>>
           \/ ToLowerCase(attribute.value) = ToLowerCase(attribute.key)
        THEN attribute.key
        ELSE IF \E k \in 1..Len(encodedValue) :
                    encodedValue[k] \in {"<", ">", SQ, DQ} \cup WhiteSpace
             THEN attribute.key \o <<"=", DQ>> \o encodedValue \o <<DQ>>
             ELSE attribute.key \o <<"=">> \o encodedValue

\* attributes.map(...).join(' ')
AttributesHtml(attributes) ==
    JoinSpace([k \in 1..Len(attributes) |-> AttributeHtml(attributes[k])])

\* `<${`${name} ${attributes}`.trim()}>`
StartTag(name, attributes) ==
    <<"<">> \o Trim(name \o <<SP>> \o AttributesHtml(attributes)) \o <<">">>

\* `</${name}>`
EndTag(name) == <<"<", "/">> \o name \o <<">">>

\* The text before the children in AstFileNode.outerHtml.
FileBanner ==
    <<"<", "!", "-", "-", SP, "M", "a", "d", "e", SP, "w", "i", "t", "h",
      SP, "t", "h", "e", SP, "C", "a", "s", "c", "a", "d", "i", "n", "g",
      SP, "M", "a", "r", "k", "u", "p", SP, "L", "a", "n", "g", "u", "a",
      "g", "e", SP, "(", "C", "M", "L", ")", ":", LF>>
    \o
    <<"h", "t", "t", "p", "s", ":", "/", "/", "g", "i", "t", "h", "u", "b",
      ".", "c", "o", "m", "/", "g", "o", "d", "i", "s", "m", "y", "j", "u",
      "d", "g", "e", "b", "r", "o", "/", "c", "a", "s", "c", "a", "d", "i",
      "n", "g", "-", "m", "a", "r", "k", "u", "p", SP, "-", "-", ">", LF>>
    \o
    <<"<", "!", "D", "O", "C", "T", "Y", "P", "E", SP, "h", "t", "m", "l",
      ">">>

RECURSIVE OuterHtml(_, _)

\* The outerHtml of the nodes ids of ns, one after the other:
\* children.map(child => child.outerHtml).join('').
RECURSIVE ChildrenHtml(_, _)
ChildrenHtml(ns, ids) ==
    IF ids = <<>> THEN <<>>
    ELSE OuterHtml(ns, Head(ids)) \o ChildrenHtml(ns, Tail(ids))

\* node.innerHtml for the node n of ns.
InnerHtml(ns, n) ==
    IF ns[n].type = "Text" THEN TextInnerHtml(ns[n].name)
    ELSE ChildrenHtml(ns, ns[n].children)

\* node.outerHtml for the node n of ns: a text, an element (a void element
\* without children has no end tag) or the file.
OuterHtml(ns, n) ==
    IF ns[n].type = "Text" THEN TextOuterHtml(ns[n].name)
    ELSE IF ns[n].type = "File" THEN FileBanner \o InnerHtml(ns, n)
    ELSE IF ns[n].children = <<>> /\ ns[n].name \in VoidElements
         THEN StartTag(ns[n].name, ns[n].attributes)
         ELSE StartTag(ns[n].name, ns[n].attributes)
                  \o InnerHtml(ns, n) \o EndTag(ns[n].name)

-----------------------------------------------------------------------------
(* AstFileNode.parse: one action for each way through the body of the loop *)

MaxLen == 5

MaxNodes == 8

Alphabet == {"a", ";", "{", "}", DQ, SP}

Init ==
    /\ code \in SeqsUpTo(Alphabet, MaxLen)
    /\ i = 0
    /\ currentNode = 1
    /\ scope = 1
    /\ nodes = <<FileNode(code)>>
    /\ status = "scan"
    /\ position = NaNPosition
    /\ result = <<>>
    /\ blocks = <<>>
    /\ tok = <<>>

\* The loop is entered: i < code.length.
Running == status = "scan" /\ i < Len(code)

\* i + code.slice(i).search(/\S|$/u): the index the iteration looks at.
ScanAt == SpaceRunEnd(code, i + 1) - 1

\* code[k], "" standing for undefined.
CharAt(k) == IF k < Len(code) THEN code[k + 1] ELSE ""

TextMatches == TextMatchEnd(code, ScanAt + 1) # 0

ElementMatches == SelectorGroups(code, ScanAt + 1).matched

\* code[i] === ';'
Semicolon ==
    /\ Running
    /\ CharAt(ScanAt) = ";"
    /\ scope' = nodes[currentNode].scope
    /\ currentNode' = nodes[currentNode].scope
    /\ i' = ScanAt + 1
    /\ tok' = Append(tok, "semi")
    /\ UNCHANGED <<code, nodes, status, position, blocks, result>>

\* code[i] === '{'
OpenBlock ==
    /\ Running
    /\ CharAt(ScanAt) = "{"
    /\ scope' = currentNode
    /\ i' = ScanAt + 1
    /\ blocks' = Append(blocks, currentNode)
    /\ tok' = Append(tok, "open")
    /\ UNCHANGED <<code, currentNode, nodes, status, position, result>>

\* What the history records for a '}': whether a block was open.
CloseKind == IF blocks = <<>> THEN "closeAtRoot" ELSE "close"

\* code[i] === '}', and currentNode has a parent.
CloseBlock ==
    /\ Running
    /\ CharAt(ScanAt) = "}"
    /\ nodes[currentNode].parent # 0
    /\ scope' = nodes[nodes[currentNode].parent].scope
    /\ i' = ScanAt + 1
    /\ blocks' = IF blocks = <<>> THEN <<>> ELSE SubSeq(blocks, 1, Len(blocks) - 1)
    /\ tok' = Append(tok, CloseKind)
    /\ UNCHANGED <<code, currentNode, nodes, status, position, result>>

\* code[i] === '}', and currentNode.parent is null: reading .scope of null
\* throws a TypeError.
CloseBlockThrows ==
    /\ Running
    /\ CharAt(ScanAt) = "}"
    /\ nodes[currentNode].parent = 0
    /\ status' = "error"
    /\ tok' = Append(tok, CloseKind)
    /\ UNCHANGED <<code, i, currentNode, scope, nodes, position, blocks, result>>

\* Neither ';' nor '{' nor '}' stands at the index the iteration looks at.
NoControl == CharAt(ScanAt) \notin {";", "{", "}"}

\* The node the iteration parses: AstTextNode.parse(...) ?? AstElementNode.parse(...).
NewNode ==
    IF TextMatches
    THEN TextParse(code, currentNode, scope, ScanAt)
    ELSE ElementParse(code, currentNode, scope, ScanAt)

\* The text node appended whatever the current node is.
MatchTextUnderText ==
    /\ Running
    /\ NoControl
    /\ TextMatches
    /\ Len(nodes) <= MaxNodes
    /\ nodes' = AddChild(nodes, currentNode, NewNode)
    /\ i' = ScanAt + NewNode.position.length
    /\ currentNode' = Len(nodes) + 1
    /\ tok' = Append(tok, "text")
    /\ UNCHANGED <<code, scope, status, position, blocks, result>>

\* newNode !== null, parsed by the text grammar.
MatchText ==
    /\ Running
    /\ NoControl
    /\ TextMatches
    /\ nodes[currentNode].type # "Text"
    /\ Len(nodes) <= MaxNodes
    /\ nodes' = AddChild(nodes, currentNode, NewNode)
    /\ i' = ScanAt + NewNode.position.length
    /\ currentNode' = Len(nodes) + 1
    /\ tok' = Append(tok, "text")
    /\ UNCHANGED <<code, scope, status, position, blocks, result>>

\* newNode !== null, parsed by the selector grammar.
MatchElement ==
    /\ Running
    /\ NoControl
    /\ ~TextMatches
    /\ ElementMatches
    /\ nodes[currentNode].type # "Text"
    /\ Len(nodes) <= MaxNodes
    /\ nodes' = AddChild(nodes, currentNode, NewNode)
    /\ i' = ScanAt + NewNode.position.length
    /\ currentNode' = Len(nodes) + 1
    /\ tok' = Append(tok, "element")
    /\ UNCHANGED <<code, scope, status, position, blocks, result>>

\* newNode !== null and currentNode is a text node: AstTextNode.addChild
\* always throws.
AddChildThrows ==
    /\ Running
    /\ NoControl
    /\ TextMatches \/ ElementMatches
    /\ nodes[currentNode].type = "Text"
    /\ status' = "error"
    /\ tok' = Append(tok, "throw")
    /\ UNCHANGED <<code, i, currentNode, scope, nodes, position, blocks, result>>

\* newNode === null: break.
Break ==
    /\ Running
    /\ NoControl
    /\ ~TextMatches
    /\ ~ElementMatches
    /\ status' = "done"
    /\ UNCHANGED <<code, i, currentNode, scope, nodes, position, blocks, tok, result>>

\* The loop condition fails: return this.
LoopEnd ==
    /\ status = "scan"
    /\ i >= Len(code)
    /\ status' = "done"
    /\ UNCHANGED <<code, i, currentNode, scope, nodes, position, blocks, tok, result>>

Next ==
    \/ Semicolon
    \/ OpenBlock
    \/ CloseBlock
    \/ CloseBlockThrows
    \/ MatchText
    \/ MatchElement
    \/ AddChildThrows
    \/ Break
    \/ LoopEnd

Spec == Init /\ [][Next]_vars

-----------------------------------------------------------------------------
(* Claims about AstFileNode.parse, checked under Spec *)

NodeKinds == {"text", "element"}

\* The node that opened the innermost block still open, the file when no
\* block is open.
InnermostOpen == IF blocks = <<>> THEN 1 ELSE Last(blocks)

\* The token consumed before the last one, "start" when there is none.
PreviousTok == IF Len(tok) >= 2 THEN tok[Len(tok) - 1] ELSE "start"

\* The last token consumed, "start" when there is none.
LastTok == IF tok # <<>> THEN Last(tok) ELSE "start"

\* C1: a statement that begins right after a block boundary ('{', or a '}'
\* that closed an open block) becomes a direct child of the element that
\* opened the enclosing block: after a '}' it is attached to the element
\* enclosing the closed block, never to the element whose block was closed.
C1_StatementsJoinEnclosingBlock ==
    (LastTok \in NodeKinds /\ PreviousTok \in {"open", "close"})
        => nodes[currentNode].parent = InnermostOpen

\* C2: at every ';' the current insertion node becomes the element that
\* opened the innermost block still open, or the file when none is open.
C2_SemicolonReturnsToInnermostBlock ==
    LastTok = "semi" => currentNode = InnermostOpen

\* A node is matched by the text or the selector grammar in this iteration.
NodeMatched == Running /\ NoControl /\ (TextMatches \/ ElementMatches)

\* The step appends a new node as the last child of the current node, and
\* the new node becomes the current node.
AppendedToCurrent ==
    /\ Len(nodes') = Len(nodes) + 1
    /\ nodes'[Len(nodes')].parent = currentNode
    /\ nodes'[currentNode].children
           = Append(nodes[currentNode].children, Len(nodes'))
    /\ currentNode' = Len(nodes')

\* Two nodes matched in a row: the second is a child of the first.
ChainRule ==
    (LastTok \in NodeKinds /\ PreviousTok \in NodeKinds)
        => nodes[currentNode].parent = currentNode - 1

\* In a source without braces, the first node of every statement is a child
\* of the file: statements separated by ';' are siblings.
SiblingRule ==
    (/\ LastTok \in NodeKinds
     /\ PreviousTok \in {"start", "semi"}
     /\ \A k \in 1..Len(tok) : tok[k] \notin {"open", "close", "closeAtRoot"})
        => /\ nodes[currentNode].parent = 1
           /\ Last(nodes[1].children) = currentNode

C4_CloseWithNoOpenBlockFails ==
    LastTok = "closeAtRoot" => status = "error"

\* The quote at index idx of c is never closed: no later occurrence of the
\* same quotation mark follows an even number of backslashes.
UnclosedQuoteAt(c, idx) ==
    /\ c[idx + 1] \in Quotes
    /\ \A q \in (idx + 2)..Len(c) :
           c[q] = c[idx + 1] => BackslashesBefore(c, idx + 1, q) % 2 = 1

\* C5: an opening quote whose closing quote never occurs makes parse fail;
\* no node is made of the unterminated string.
C5_UnclosedStringIsNoNode ==
    \A n \in 2..Len(nodes) :
        ~UnclosedQuoteAt(code, nodes[n].position.start.index)

\* C6: parse fails when a '{' has no matching '}' before the end of input:
\* it never ends normally with a block still open.
C6_UnclosedBlockFails ==
    status = "done" => blocks = <<>>

-----------------------------------------------------------------------------
(* The selector specification: AstElementNode.parse(file, file, 0) on a     *)
(* file whose code is one selector, as AstElementNode.test.js calls it.     *)

MaxSelLen == 5

SelAlphabet == {"a", "b", "#", ".", "[", "]", "=", SP}

\* #foo.bar.foo[foo="bar baz qux"], the selector of the tests.
TestSelectorImplicit ==
    <<"#", "f", "o", "o", ".", "b", "a", "r", ".", "f", "o", "o",
      "[", "f", "o", "o", "=", DQ, "b", "a", "r", SP, "b", "a", "z", SP,
      "q", "u", "x", DQ, "]">>

\* div#foo.bar.foo[foo="bar baz qux"]
TestSelectorExplicit == TagDiv \o TestSelectorImplicit

InitSelector ==
    /\ code \in SeqsUpTo(SelAlphabet, MaxSelLen)
                  \cup {TestSelectorImplicit, TestSelectorExplicit}
    /\ i = 0
    /\ currentNode = 1
    /\ scope = 1
    /\ nodes = <<FileNode(code)>>
    /\ status = "new"
    /\ position = NaNPosition
    /\ result = <<>>
    /\ blocks = <<>>
    /\ tok = <<>>

\* The selector expression matches at index 0: the element is returned.
ElementParseCall ==
    /\ status = "new"
    /\ SelectorGroups(code, 1).matched
    /\ nodes' = Append(nodes, ElementParse(code, 1, 1, 0))
    /\ status' = "done"
    /\ UNCHANGED <<code, i, currentNode, scope, position, blocks, tok, result>>

\* No match: null is returned.
ElementParseNull ==
    /\ status = "new"
    /\ ~SelectorGroups(code, 1).matched
    /\ status' = "null"
    /\ UNCHANGED <<code, i, currentNode, scope, nodes, position, blocks, tok, result>>

NextSelector == ElementParseCall \/ ElementParseNull

SpecSelector == InitSelector /\ [][NextSelector]_vars

\* The element the call returned.
Parsed == status = "done" /\ Len(nodes) = 2

\* The positions of the attributes of xs whose key is key.
WithKey(xs, key) == {k \in 1..Len(xs) : xs[k].key = key}

\* C7: an element parsed from a selector with #name has an id attribute
\* whose value is name, without the leading '#'.
C7_IdAttributeIsTheName ==
    (Parsed /\ SelectorGroups(code, 1).id # <<>>)
        => \E k \in WithKey(nodes[2].attributes, KeyId) :
               nodes[2].attributes[k].value = Tail(SelectorGroups(code, 1).id)

\* The strings of the set S in increasing order of code units.
RECURSIVE Ascending(_)
Ascending(S) ==
    IF S = {} THEN <<>>
    ELSE LET least == CHOOSE x \in S : \A y \in S : ~CodeUnitLess(y, x)
         IN  <<least>> \o Ascending(S \ {least})

\* The class fragments of a classNames group: what stands after each dot.
ClassFragments(classNames) ==
    {SplitOn(classNames, ".")[k] : k \in 2..Len(SplitOn(classNames, "."))}

\* C8: a selector with class fragments gives exactly one class attribute,
\* whose value is the fragments sorted, without duplicates, joined by single
\* spaces.
C8_ClassAttributeSortedWithoutDuplicates ==
    (Parsed /\ SelectorGroups(code, 1).classNames # <<>>)
        => /\ Cardinality(WithKey(nodes[2].attributes, KeyClass)) = 1
           /\ \A k \in WithKey(nodes[2].attributes, KeyClass) :
                  nodes[2].attributes[k].value
                      = JoinSpace(Ascending(
                            ClassFragments(SelectorGroups(code, 1).classNames)))

\* The attributes xs are in non-decreasing order of key.
SortedByKey(xs) ==
    \A k \in 1..(Len(xs) - 1) : ~LocaleCompareGreater(xs[k].key, xs[k + 1].key)

\* C9: the attribute list of every element AstElementNode.parse produces is
\* sorted in non-decreasing order of key.
C9_AttributesSortedByKey ==
    \A n \in 2..Len(nodes) :
        nodes[n].type = "Element" => SortedByKey(nodes[n].attributes)

\* C9's case: an element whose attributes were pushed out of order.
C9_Witness ==
    /\ Parsed
    /\ Len(nodes[2].attributes) >= 2
    /\ ~SortedByKey(PushedAttributes(SelectorGroups(code, 1).id,
                                     SelectorGroups(code, 1).classNames,
                                     SelectorGroups(code, 1).attributeSelector))

-----------------------------------------------------------------------------
(* The position specification: a source of its own, as AstSource.test.js    *)
(* builds it, on which updatePosition is called with any pair of indices.   *)

MaxPosLen == 3

PosAlphabet == {"a", CR, LF}

InitPosition ==
    /\ code \in SeqsUpTo(PosAlphabet, MaxPosLen)
    /\ i = 0
    /\ currentNode = 1
    /\ scope = 1
    /\ nodes = <<FileNode(code)>>
    /\ status = "new"
    /\ position = NaNPosition
    /\ result = <<>>
    /\ blocks = <<>>
    /\ tok = <<>>

\* The record of a call of updatePosition.
UpdatePositionCalled(startIndex, endIndex) ==
    [op |-> "updatePosition", startIndex |-> startIndex, endIndex |-> endIndex]

UpdatePositionOk(startIndex, endIndex) ==
    /\ ~UpdatePositionThrows(code, startIndex, endIndex)
    /\ position' = ComputePosition(code, startIndex, endIndex)
    /\ status' = "ok"
    /\ result' = "this"
    /\ tok' = <<UpdatePositionCalled(startIndex, endIndex)>>
    /\ UNCHANGED <<code, i, currentNode, scope, nodes, blocks>>

UpdatePositionThrow(startIndex, endIndex) ==
    /\ UpdatePositionThrows(code, startIndex, endIndex)
    /\ status' = "error"
    /\ result' = <<>>
    /\ tok' = <<UpdatePositionCalled(startIndex, endIndex)>>
    /\ UNCHANGED <<code, i, currentNode, scope, nodes, position, blocks>>

MaxLine == 4

\* source.indexFromLineNumber(line)
IndexFromLineNumberCall(line) ==
    /\ result' = IndexFromLineNumber(code, line)
    /\ status' = "returned"
    /\ tok' = <<[op |-> "indexFromLineNumber", line |-> line]>>
    /\ UNCHANGED <<code, i, currentNode, scope, nodes, position, blocks>>

NextPosition ==
    \/ \E startIndex \in -1..(Len(code) + 1), endIndex \in -1..(Len(code) + 1) :
           UpdatePositionOk(startIndex, endIndex)
    \/ \E startIndex \in -1..(Len(code) + 1), endIndex \in -1..(Len(code) + 1) :
           UpdatePositionThrow(startIndex, endIndex)
    \/ \E line \in 1..MaxLine : IndexFromLineNumberCall(line)

SpecPosition == InitPosition /\ [][NextPosition]_vars

\* The number of line breaks (\r?\n) of c that end at or before index idx.
LineBreaksBefore(c, idx) == Cardinality({k \in 1..idx : c[k] = LF})

\* The index just after the last line break before idx, 0 when there is none.
LineStartBefore(c, idx) == Max({0} \cup {k \in 1..idx : c[k] = LF})

\* What the position of a boundary index should be.
BoundaryIs(b, c) ==
    /\ b.line = 1 + LineBreaksBefore(c, b.index)
    /\ b.column = 1 + (b.index - LineStartBefore(c, b.index))

\* C10: after a successful updatePosition, at both the start and the end
\* boundary, line is 1 + the number of line breaks before the index and
\* column is 1 + the number of characters between the last line break before
\* the index (or the beginning of the source) and the index.
C10_LineColumnAtBothBoundaries ==
    status = "ok" => BoundaryIs(position.start, code) /\ BoundaryIs(position.end, code)

\* C11: updatePosition fails for every pair of integers with
\* startIndex > endIndex, startIndex < 0 or endIndex > len(source), and then
\* leaves the stored position as it was; for every other pair it succeeds
\* and stores start.index = startIndex, end.index = endIndex and
\* length = endIndex - startIndex.
C11_UpdatePositionContract ==
    [][tok'[1].op = "updatePosition" =>
          LET startIndex == tok'[1].startIndex
              endIndex == tok'[1].endIndex
          IN  IF startIndex > endIndex \/ startIndex < 0 \/ endIndex > Len(code)
              THEN status' = "error" /\ position' = position
              ELSE /\ status' = "ok"
                   /\ position'.start.index = startIndex
                   /\ position'.end.index = endIndex
                   /\ position'.length = endIndex - startIndex]_vars

\* C11's case: a call with endIndex beyond the source has failed on a
\* source that holds a position stored by an earlier call, one that starts
\* on line 2.
C11_Witness ==
    /\ status = "error"
    /\ tok[1].op = "updatePosition"
    /\ tok[1].endIndex > Len(code)
    /\ position.start.line = 2

\* The indices of the line feeds of c.
LineFeedsOf(c) == {k \in 1..Len(c) : c[k] = LF}

\* The index just after the n-th line break of c.
AfterLineBreak(c, n) ==
    CHOOSE k \in LineFeedsOf(c) : Cardinality({j \in LineFeedsOf(c) : j < k}) = n - 1

\* C12: indexFromLineNumber(n), n >= 1, returns the index just after the
\* (n-1)-th line break of the source, 0 for n = 1, and len(source) + 1 when
\* the source has fewer than n - 1 line breaks.
C12_IndexFromLineNumber ==
    (status = "returned" /\ tok[1].op = "indexFromLineNumber") =>
        result = IF tok[1].line = 1 THEN 0
                 ELSE IF Cardinality(LineFeedsOf(code)) < tok[1].line - 1
                      THEN Len(code) + 1
                      ELSE AfterLineBreak(code, tok[1].line - 1)

\* C12's case: line 2 asked of a source with two line breaks, the first of
\* them written \r\n.
C12_Witness ==
    /\ status = "returned"
    /\ tok[1].op = "indexFromLineNumber"
    /\ tok[1].line = 2
    /\ Cardinality(LineFeedsOf(code)) = 2
    /\ code[1] = CR
    /\ result = 2

-----------------------------------------------------------------------------
(* The text specification: a text node made by its constructor or by       *)
(* AstTextNode.parse(file, file, 0), and rendered, as AstTextNode.test.js  *)
(* does.                                                                    *)

MaxTextLen == 4

TextAlphabet == {"a", "n", BSL, "<", "&", DQ, SQ}

\* foo bar \n <baz> qux, the text of the tests.
TestText ==
    <<"f", "o", "o", SP, "b", "a", "r", SP, BSL, "n", SP,
      "<", "b", "a", "z", ">", SP, "q", "u", "x">>

\* The same text rendered, as the tests expect it.
TestTextHtml ==
    <<"f", "o", "o", SP, "b", "a", "r", SP>> \o Br \o <<SP>>
        \o LtEntity \o <<"b", "a", "z">> \o GtEntity \o <<SP, "q", "u", "x">>

\* new AstTextNode(textContent, null, null)
TextNode(textContent) ==
    [type |-> "Text", name |-> textContent, parent |-> 0, scope |-> 0,
     attributes |-> <<>>, children |-> <<>>, position |-> NaNPosition]

\* code is the argument of the constructor: the text, or the code of the
\* file the text is parsed from.
InitText ==
    /\ code \in SeqsUpTo(TextAlphabet, MaxTextLen)
                  \cup {<<DQ>> \o c \o <<DQ>> : c \in SeqsUpTo(TextAlphabet, MaxTextLen)}
                  \cup {<<SQ>> \o c \o <<SQ>> : c \in SeqsUpTo(TextAlphabet, MaxTextLen)}
                  \cup {TestText, <<DQ>> \o TestText \o <<DQ>>}
    /\ i = 0
    /\ currentNode = 1
    /\ scope = 1
    /\ nodes = <<FileNode(code)>>
    /\ status = "new"
    /\ position = NaNPosition
    /\ result = <<>>
    /\ blocks = <<>>
    /\ tok = <<>>

\* new AstTextNode(code, null, null)
TextNodeNew ==
    /\ status = "new"
    /\ nodes' = Append(nodes, TextNode(code))
    /\ status' = "constructed"
    /\ UNCHANGED <<code, i, currentNode, scope, position, result, blocks, tok>>

\* AstTextNode.parse(file, file, 0): the text expression matches.
TextParseCall ==
    /\ status = "new"
    /\ TextMatchEnd(code, 1) # 0
    /\ nodes' = Append(nodes, TextParse(code, 1, 1, 0))
    /\ status' = "parsed"
    /\ UNCHANGED <<code, i, currentNode, scope, position, result, blocks, tok>>

\* AstTextNode.parse(file, file, 0): no match, null is returned.
TextParseNull ==
    /\ status = "new"
    /\ TextMatchEnd(code, 1) = 0
    /\ status' = "null"
    /\ UNCHANGED <<code, i, currentNode, scope, nodes, position, result, blocks, tok>>

\* node.innerHtml
TextInnerHtmlGet ==
    /\ status \in {"constructed", "parsed"}
    /\ result' = TextInnerHtml(nodes[2].name)
    /\ tok' = <<"innerHtml">>
    /\ UNCHANGED <<code, i, currentNode, scope, nodes, status, position, blocks>>

\* node.outerHtml
TextOuterHtmlGet ==
    /\ status \in {"constructed", "parsed"}
    /\ result' = TextOuterHtml(nodes[2].name)
    /\ tok' = <<"outerHtml">>
    /\ UNCHANGED <<code, i, currentNode, scope, nodes, status, position, blocks>>

NextText ==
    \/ TextNodeNew
    \/ TextParseCall
    \/ TextParseNull
    \/ TextInnerHtmlGet
    \/ TextOuterHtmlGet

SpecText == InitText /\ [][NextText]_vars

\* A text node has been made and one of its two renderings read.
TextRendered == status \in {"constructed", "parsed"} /\ tok # <<>>

\* The raw content the node was made from: the argument of the constructor,
\* or what stands between the quotes of the literal parsed.
RawContent ==
    IF status = "constructed" THEN code
    ELSE SubSeq(code, 2, TextMatchEnd(code, 1) - 1)

\* s with every backslash followed by n rendered as <br> and every other
\* character HTML-escaped.
RECURSIVE BreaksAndEscaped(_)
BreaksAndEscaped(s) ==
    IF s = <<>> THEN <<>>
    ELSE IF Len(s) >= 2 /\ s[1] = BSL /\ s[2] = "n"
         THEN Br \o BreaksAndEscaped(SubSeq(s, 3, Len(s)))
         ELSE EncodeChar(s[1]) \o BreaksAndEscaped(Tail(s))

\* Every backslash of s begins a two-character escape \n.
OnlyLineBreakEscapes(s) ==
    \A k \in 1..Len(s) :
        s[k] = BSL => /\ k < Len(s)
                      /\ s[k + 1] = "n"
                      /\ k = 1 \/ s[k - 1] # BSL

RECURSIVE DecodedHtml(_)
DecodedHtml(s) ==
    IF s = <<>> THEN <<>>
    ELSE IF Len(s) >= 2 /\ s[1] = BSL
         THEN (IF s[2] = "n" THEN Br ELSE EncodeChar(s[2]))
                  \o DecodedHtml(SubSeq(s, 3, Len(s)))
         ELSE EncodeChar(s[1]) \o DecodedHtml(Tail(s))

\* The last backslash of s has no character to escape.
RECURSIVE DanglingBackslash(_)
DanglingBackslash(s) ==
    IF s = <<>> THEN FALSE
    ELSE IF s[1] = BSL
         THEN Len(s) = 1 \/ DanglingBackslash(SubSeq(s, 3, Len(s)))
         ELSE DanglingBackslash(Tail(s))

\* C14: when a text node is rendered, every backslash escape other than the
\* line-break escape decodes to the escaped character alone: backslash + c,
\* c other than n, at any position renders as the HTML-escaped c without the
\* backslash, and an n after an even number of backslashes is no line
\* break.
C14_OtherEscapesDecodeToTheCharacter ==
    (TextRendered /\ ~DanglingBackslash(nodes[2].name))
        => result = DecodedHtml(nodes[2].name)

-----------------------------------------------------------------------------
(* The escaping specification: the three functions that escape a text for  *)
(* HTML, each called on the same text.                                      *)

MaxEncodeLen == 3

EncodeAlphabet == {"a", ";", "<", ">", "&", DQ}

\* <b>&", the text of the example.
TestEscape == <<"<", "b", ">", "&", DQ>>

InitEncode ==
    /\ code \in SeqsUpTo(EncodeAlphabet, MaxEncodeLen) \cup {TestEscape}
    /\ i = 0
    /\ currentNode = 1
    /\ scope = 1
    /\ nodes = <<FileNode(code)>>
    /\ status = "new"
    /\ position = NaNPosition
    /\ result = <<>>
    /\ blocks = <<>>
    /\ tok = <<>>

\* encode(code) of Ast/encode.ts
EncodeCall ==
    /\ result' = Encode(code)
    /\ status' = "returned"
    /\ tok' = <<"encode">>
    /\ UNCHANGED <<code, i, currentNode, scope, nodes, position, blocks>>

\* encode(code), the variant written with replaceAll
EncodeReplaceAllCall ==
    /\ result' = EncodeReplaceAll(code)
    /\ status' = "returned"
    /\ tok' = <<"encode (replaceAll)">>
    /\ UNCHANGED <<code, i, currentNode, scope, nodes, position, blocks>>

\* encodeString(code) of stringify
EncodeStringCall ==
    /\ result' = EncodeString(code)
    /\ status' = "returned"
    /\ tok' = <<"encodeString">>
    /\ UNCHANGED <<code, i, currentNode, scope, nodes, position, blocks>>

NextEncode == EncodeCall \/ EncodeReplaceAllCall \/ EncodeStringCall

SpecEncode == InitEncode /\ [][NextEncode]_vars

\* The entity that stands for the character c, c itself when it has none.
EntityOf(c) ==
    IF c = "<" THEN LtEntity
    ELSE IF c = ">" THEN GtEntity
    ELSE IF c = "&" THEN AmpEntity
    ELSE IF c = DQ THEN QuotEntity
    ELSE <<c>>

\* out is s with each of its characters replaced, once, by its entity: out
\* begins with the entity of the first character of s, and the rest of out
\* is the rest of s replaced the same way.
RECURSIVE EscapedOnce(_, _)
EscapedOnce(s, out) ==
    IF s = <<>> THEN out = <<>>
    ELSE LET entity == EntityOf(Head(s))
         IN  /\ Len(out) >= Len(entity)
             /\ SubSeq(out, 1, Len(entity)) = entity
             /\ EscapedOnce(Tail(s), SubSeq(out, Len(entity) + 1, Len(out)))

\* C15: HTML escaping replaces each occurrence of <, >, & and " in the text
\* by &lt;, &gt;, &amp; and &quot;, exactly once, and leaves every other
\* character as it is: no entity made by one replacement is escaped again.
C15_EachCharacterEscapedOnce ==
    status = "returned" => EscapedOnce(code, result)

-----------------------------------------------------------------------------
(* The element specification: an element made by its constructor or by     *)
(* AstElementNode.parse(file, file, 0), given children with addChild, and  *)
(* rendered, as AstElementNode.test.js does.                                *)

MaxAttributes == 2

MaxChildren == 1

\* The tag names the constructor is called with.
TagNames == {<<"b", "r">>, <<"a">>}

AttributeKeys == {<<"a">>, <<"A">>}

AttributeValues == {<<>>, <<"a">>, <<"A">>, <<"<">>, <<SQ>>, <<"a", SP, "b">>}

\* The attributes the constructor is called with.
AttributePairs == [key : AttributeKeys, value : AttributeValues]

\* tag[key=value], the selectors with one attribute.
AttributeSelectors ==
    {t \o <<"[">> \o k \o <<"=">> \o v \o <<"]">> :
        t \in TagNames, k \in AttributeKeys, v \in {<<"a">>, <<"A">>, <<"<">>}}

\* code is the tag name given to the constructor, or the code of the file
\* the element is parsed from.
InitElement ==
    /\ code \in VoidElements \cup TagNames \cup AttributeSelectors
                  \cup {<<SP, "a">>, TestSelectorExplicit}
    /\ i = 0
    /\ currentNode = 1
    /\ scope = 1
    /\ nodes = <<FileNode(code)>>
    /\ status = "new"
    /\ position = NaNPosition
    /\ result = <<>>
    /\ blocks = <<>>
    /\ tok = <<>>

\* new AstElementNode(tagName, null, null, attributes)
ElementNode(tagName, attributes) ==
    [type |-> "Element", name |-> tagName, parent |-> 0, scope |-> 0,
     attributes |-> attributes, children |-> <<>>, position |-> NaNPosition]

\* new AstElementNode(code, null, null, attributes)
ElementNew(attributes) ==
    /\ status = "new"
    /\ code \in TagNames
    /\ nodes' = Append(nodes, ElementNode(code, attributes))
    /\ status' = "done"
    /\ UNCHANGED <<code, i, currentNode, scope, position, result, blocks, tok>>

\* element.addChild(child), for a child made by its constructor.
AddChildCall(child) ==
    /\ status = "done"
    /\ Len(nodes[2].children) < MaxChildren
    /\ nodes' = AddChild(nodes, 2, child)
    /\ result' = "this"
    /\ tok' = <<"addChild">>
    /\ UNCHANGED <<code, i, currentNode, scope, status, position, blocks>>

\* element.outerHtml
ElementOuterHtmlGet ==
    /\ status = "done"
    /\ result' = OuterHtml(nodes, 2)
    /\ tok' = <<"outerHtml">>
    /\ UNCHANGED <<code, i, currentNode, scope, nodes, status, position, blocks>>

NextElement ==
    \/ \E attributes \in SeqsUpTo(AttributePairs, MaxAttributes) :
           ElementNew(attributes)
    \/ ElementParseCall
    \/ ElementParseNull
    \/ \E child \in {TextNode(<<"a">>), ElementNode(<<"a">>, <<>>)} :
           AddChildCall(child)
    \/ ElementOuterHtmlGet

SpecElement == InitElement /\ [][NextElement]_vars

\* The element has been rendered.
ElementRendered == status = "done" /\ tok = <<"outerHtml">>

\* s ends with t.
EndsWith(s, t) ==
    Len(s) >= Len(t) /\ SubSeq(s, Len(s) - Len(t) + 1, Len(s)) = t

\* s begins with t.
StartsWith(s, t) == Len(s) >= Len(t) /\ SubSeq(s, 1, Len(t)) = t

\* C16: an element whose tag name is a void element never renders a closing
\* tag, whatever its attributes and its children, a non-empty list of
\* children included.
C16_VoidElementNeverHasClosingTag ==
    (ElementRendered /\ nodes[2].name \in VoidElements)
        => ~EndsWith(result, <<"<", "/">> \o nodes[2].name \o <<">">>)

\* s with each character replaced by its entity.
RECURSIVE EscapedText(_)
EscapedText(s) ==
    IF s = <<>> THEN <<>> ELSE EntityOf(Head(s)) \o EscapedText(Tail(s))

\* The attribute is written in its short form: its value is empty, or is its
\* key but for the case of the letters.
IsBoolean(attribute) ==
    \/ attribute.value = <<>>
    \/ ToLowerCase(attribute.value) = ToLowerCase(attribute.key)

\* The renderings the claim allows for one attribute: the bare key for a
\* boolean attribute, key=value with the escaped value, in double quotes or
\* not, for any other.
AllowedHtml(attribute) ==
    IF IsBoolean(attribute) THEN {attribute.key}
    ELSE {attribute.key \o <<"=">> \o EscapedText(attribute.value),
          attribute.key \o <<"=", DQ>> \o EscapedText(attribute.value) \o <<DQ>>}

\* The renderings allowed for a list of attributes: one allowed rendering of
\* each, each after a space.
RECURSIVE AllowedList(_)
AllowedList(attributes) ==
    IF attributes = <<>> THEN {<<>>}
    ELSE {<<SP>> \o first \o rest :
             first \in AllowedHtml(Head(attributes)),
             rest \in AllowedList(Tail(attributes))}

\* C17: when an element is rendered, an attribute renders as the bare key
\* (no '=', no value) if and only if its value is the empty string or equals
\* its key case-insensitively; every other attribute renders as key=value
\* with the HTML-escaped value.
C17_BooleanAttributesRenderAsBareKey ==
    ElementRendered =>
        \E list \in AllowedList(nodes[2].attributes) :
            StartsWith(result, <<"<">> \o nodes[2].name \o list \o <<">">>)

\* C17's case: a rendered element with an attribute whose value is its key
\* in another case, and an attribute whose value has to be escaped.
C17_Witness ==
    /\ ElementRendered
    /\ nodes[2].attributes = <<[key |-> <<"a">>, value |-> <<"A">>],
                               [key |-> <<"A">>, value |-> <<"<">>]>>
    /\ result = <<"<", "b", "r", SP, "a", SP, "A", "=">> \o LtEntity \o <<">">>

-----------------------------------------------------------------------------
(* The document tree of the first parser, its normalizer (validateHtmlNode) *)
(* and its serializer (stringify).  A node is an object of the heap nodes;  *)
(* children holds the places of the child objects, so that an object pushed *)
(* into two arrays is one object.                                           *)

\* s.trimEnd().
TrimEnd(s) ==
    LET solid == {k \in 1..Len(s) : s[k] \notin WhiteSpace}
    IN  IF solid = {} THEN <<>> ELSE SubSeq(s, 1, Max(solid))

RootName ==
    <<"r", "o", "o", "t">>

HtmlName ==
    <<"h", "t", "m", "l">>

HeadName ==
    <<"h", "e", "a", "d">>

BodyName ==
    <<"b", "o", "d", "y">>

MetaName ==
    <<"m", "e", "t", "a">>

TitleName ==
    <<"t", "i", "t", "l", "e">>

TextName ==
    <<"t", "e", "x", "t">>

\* An element node of the first parser; location and parent are not read by
\* the normalizer and the serializer.
LegacyElement(name, attributes, children) ==
    [type |-> "element", name |-> name, attributes |-> attributes,
     children |-> children, value |-> <<>>]

\* A text node of the first parser: it has a value, and neither attributes
\* nor children (held empty here, and never read).
LegacyText(value) ==
    [type |-> "text", name |-> TextName, attributes |-> <<>>,
     children |-> <<>>, value |-> value]

\* [{ name: 'charset', value: 'UTF-8' }]
CharsetAttributes ==
    <<[name |-> <<"c", "h", "a", "r", "s", "e", "t">>,
       value |-> <<"U", "T", "F", "-", "8">>]>>

\* [{ name: 'http-equiv', value: 'X-UA-Compatible' },
\*  { name: 'content', value: 'IE=edge' }]
XuaAttributes ==
    <<[name |-> <<"h", "t", "t", "p", "-", "e", "q", "u", "i", "v">>,
       value |-> <<"X", "-", "U", "A", "-", "C", "o", "m", "p", "a", "t", "i", "b", "l",
  "e">>],
      [name |-> <<"c", "o", "n", "t", "e", "n", "t">>,
       value |-> <<"I", "E", "=", "e", "d", "g", "e">>]>>

\* [{ name: 'name', value: 'viewport' },
\*  { name: 'content', value: 'width=device-width, initial-scale=1' }]
ViewportAttributes ==
    <<[name |-> <<"n", "a", "m", "e">>,
       value |-> <<"v", "i", "e", "w", "p", "o", "r", "t">>],
      [name |-> <<"c", "o", "n", "t", "e", "n", "t">>,
       value |-> <<"w", "i", "d", "t", "h", "=", "d", "e", "v", "i", "c", "e",
            "-", "w", "i", "d", "t", "h", ",", SP, "i", "n", "i", "t", "i",
            "a", "l", "-", "s", "c", "a", "l", "e", "=", "1">>]>>

\* The value hasMetaInfo looks for in an http-equiv attribute.
XuaValueLookedFor ==
    <<"h", "t", "t", "p", "-", "e", "q", "u", "i", "v", "=", "X", "-", "U",
      "A", "-", "C", "o", "m", "p", "a", "t", "i", "b", "l", "e">>

\* ids.find(child => child.name === name): the first of the objects ids with
\* that name, 0 for undefined.
Find(ns, ids, name) ==
    LET hits == {k \in 1..Len(ids) : ns[ids[k]].name = name}
    IN  IF hits = {} THEN 0 ELSE ids[Min(hits)]

\* The attributes of the meta nodes among the objects ids.
MetaAttributes(ns, ids) ==
    UNION {{ns[ids[k]].attributes[j] : j \in 1..Len(ns[ids[k]].attributes)} :
              k \in {k \in 1..Len(ids) : ns[ids[k]].name = MetaName}}

HasMetaInfo(ns, ids) ==
    LET found == MetaAttributes(ns, ids)
    IN  [metaCharset |-> \E a \in found : a.name = CharsetAttributes[1].name,
         metaViewport |->
             \E a \in found : /\ a.name = ViewportAttributes[1].name
                              /\ a.value = ViewportAttributes[1].value,
         metaXuaCompatible |->
             \E a \in found : /\ a.name = XuaAttributes[1].name
                              /\ a.value = XuaValueLookedFor,
         title |-> \E k \in 1..Len(ids) : ns[ids[k]].name = TitleName]

\* head.children.unshift(a new meta node)
AddMetaTag(ns, head, attributes) ==
    [Append(ns, LegacyElement(MetaName, attributes, <<>>))
        EXCEPT ![head].children = <<Len(ns) + 1>> \o @]

\* The title node validateMeta makes when there is none is pushed into no
\* array, so it leaves the heap as it is.
ValidateMeta(ns, head) ==
    LET hasMeta == HasMetaInfo(ns, ns[head].children)
        n1 == IF ~hasMeta.metaCharset
              THEN AddMetaTag(ns, head, CharsetAttributes) ELSE ns
        n2 == IF ~hasMeta.metaXuaCompatible
              THEN AddMetaTag(n1, head, XuaAttributes) ELSE n1
    IN  IF ~hasMeta.metaViewport
        THEN AddMetaTag(n2, head, ViewportAttributes) ELSE n2

ValidateHeadNode(ns, html) ==
    LET foundHead == Find(ns, ns[html].children, HeadName)
        n0 == IF foundHead = 0
              THEN Append(ns, LegacyElement(HeadName, <<>>, <<>>)) ELSE ns
        head == IF foundHead = 0 THEN Len(n0) ELSE foundHead
        n1 == ValidateMeta(n0, head)
    IN  IF foundHead = 0 THEN [n1 EXCEPT ![html].children = <<head>> \o @]
        ELSE n1

\* The children of root that validateBodyNode pushes into body.
IsBodyContent(ns, id) == ns[id].name \notin {HtmlName, HeadName, BodyName}

ValidateBodyNode(ns, root, html) ==
    LET foundBody == Find(ns, ns[html].children, BodyName)
        n0 == IF foundBody = 0
              THEN Append(ns, LegacyElement(BodyName, <<>>, <<>>)) ELSE ns
        body == IF foundBody = 0 THEN Len(n0) ELSE foundBody
        pushed == SelectSeq(n0[root].children, LAMBDA id : IsBodyContent(n0, id))
        n1 == [n0 EXCEPT ![body].children = @ \o pushed]
    IN  IF foundBody = 0 THEN [n1 EXCEPT ![html].children = Append(@, body)]
        ELSE n1

\* validateHtmlNode(root): the heap it leaves and the html node it returns.
ValidateHtmlNode(ns, root) ==
    LET foundHtmlNode == Find(ns, ns[root].children, HtmlName)
        kept == SelectSeq(ns[root].children,
                          LAMBDA id : ns[id].name \in {HeadName, BodyName})
        n0 == IF foundHtmlNode = 0
              THEN Append(ns, LegacyElement(HtmlName, <<>>, kept)) ELSE ns
        html == IF foundHtmlNode = 0 THEN Len(n0) ELSE foundHtmlNode
    IN  [nodes |-> ValidateHeadNode(ValidateBodyNode(n0, root, html), root),
         html |-> html]

selfClosingTags ==
    {<<"m", "e", "t", "a">>,
     <<"l", "i", "n", "k">>,
     <<"i", "m", "g">>,
     <<"b", "r">>,
     <<"h", "r">>,
     <<"i", "n", "p", "u", "t">>}

\* The name="value" pairs stringifyNode appends, each followed by a space.
RECURSIVE AttributesString(_)
AttributesString(attributes) ==
    IF attributes = <<>> THEN <<>>
    ELSE Head(attributes).name \o <<"=", DQ>>
             \o EncodeString(Head(attributes).value) \o <<DQ, SP>>
             \o AttributesString(Tail(attributes))

RECURSIVE Stringify(_, _)
RECURSIVE StringifyArray(_, _)
StringifyArray(ns, ids) ==
    IF ids = <<>> THEN <<>>
    ELSE Stringify(ns, Head(ids)) \o StringifyArray(ns, Tail(ids))

StringifyNode(ns, id) ==
    LET node == ns[id]
        opened == <<"<">> \o node.name \o <<SP>>
                      \o AttributesString(node.attributes)
    IN  IF node.name = RootName THEN StringifyArray(ns, node.children)
        ELSE IF node.type = "text" THEN EncodeString(node.value)
        ELSE IF node.children = <<>> /\ node.name \in selfClosingTags
             THEN Trim(opened) \o <<SP, "/", ">">>
        ELSE TrimEnd(opened) \o <<">">> \o StringifyArray(ns, node.children)
                 \o <<"<", "/">> \o node.name \o <<">">>

\* stringify(value) for a node that is not the root.
Stringify(ns, id) ==
    IF ns[id].type = "text" THEN EncodeString(ns[id].value)
    ELSE StringifyNode(ns, id)

LegacyBanner ==
    <<"<", "!", "-", "-", LF, SP, SP, "M", "a", "d", "e", SP, "w", "i",
      "t", "h", SP, "C", "a", "s", "c", "a", "d", "i", "n", "g", SP, "M",
      "a", "r", "k", "u", "p", SP, "L", "a", "n", "g", "u", "a", "g", "e",
      SP, "(", "C", "M", "L", ")", ".", LF, SP, SP, "h", "t", "t", "p",
      "s", ":", "/", "/", "g", "i", "t", "h", "u", "b", ".", "c", "o", "m",
      "/", "g", "o", "d", "i", "s", "m", "y", "j", "u", "d", "g", "e", "b",
      "r", "o", "/", "c", "a", "s", "c", "a", "d", "i", "n", "g", "-", "m",
      "a", "r", "k", "u", "p", LF, "-", "-", ">", LF, "<", "!", "D", "O",
      "C", "T", "Y", "P", "E", SP, "h", "t", "m", "l", ">">>

\* stringifyRoot(root): the heap it leaves, the html node it serializes and
\* the string it returns.
StringifyRoot(ns, root) ==
    LET validated == ValidateHtmlNode(ns, root)
    IN  [nodes |-> validated.nodes, html |-> validated.html,
         content |-> LegacyBanner
                         \o StringifyNode(validated.nodes, validated.html)]

-----------------------------------------------------------------------------
(* The document specification: a tree as the first parser returns it, then *)
(* calls of validateHtmlNode(root) and of stringify(root), which is         *)
(* stringifyRoot(root) for the root.                                        *)

MaxTop == 2

MaxCalls == 2

\* The trees of the top-level nodes of a document, children as trees:
\* `p "hi"`, `"hi"`, and html, head and body nodes, empty and not.
TopLevelTrees ==
    LET hiText == LegacyText(<<"h", "i">>)
        pNode == LegacyElement(<<"p">>, <<>>, <<hiText>>)
        charset == LegacyElement(MetaName, CharsetAttributes, <<>>)
        title == LegacyElement(TitleName, <<>>, <<hiText>>)
        headNode == LegacyElement(HeadName, <<>>, <<>>)
        bodyNode == LegacyElement(BodyName, <<>>, <<>>)
    IN  {pNode, hiText, headNode, bodyNode,
         LegacyElement(HeadName, <<>>, <<charset>>),
         LegacyElement(HeadName, <<>>, <<title>>),
         LegacyElement(BodyName, <<>>, <<pNode>>),
         LegacyElement(HtmlName, <<>>, <<>>),
         LegacyElement(HtmlName, <<>>, <<headNode, bodyNode>>),
         LegacyElement(HtmlName, <<>>, <<LegacyElement(BodyName, <<>>, <<pNode>>)>>)}

\* The heap ns with the trees put on it, children before their parent, and
\* the places of the roots of the trees.
RECURSIVE Build(_, _)
Build(ns, trees) ==
    IF trees = <<>> THEN [nodes |-> ns, ids |-> <<>>]
    ELSE LET below == Build(ns, Head(trees).children)
             n0 == Append(below.nodes,
                          [Head(trees) EXCEPT !.children = below.ids])
             rest == Build(n0, Tail(trees))
         IN  [nodes |-> rest.nodes, ids |-> <<Len(n0)>> \o rest.ids]

\* The heap of a document: the root node, named root, at place 1.
DocumentHeap(trees) ==
    LET built == Build(<<LegacyElement(RootName, <<>>, <<>>)>>, trees)
    IN  [built.nodes EXCEPT ![1].children = built.ids]

InitDocument ==
    /\ code = <<>>
    /\ i = 0
    /\ currentNode = 1
    /\ scope = 1
    /\ \E trees \in SeqsUpTo(TopLevelTrees, MaxTop) : nodes = DocumentHeap(trees)
    /\ status = "done"
    /\ position = NaNPosition
    /\ result = <<>>
    /\ blocks = <<>>
    /\ tok = <<>>

\* validateHtmlNode(root)
ValidateHtmlNodeCall ==
    /\ Len(tok) < MaxCalls
    /\ LET validated == ValidateHtmlNode(nodes, 1)
       IN  /\ nodes' = validated.nodes
           /\ result' = validated.html
           /\ tok' = Append(tok, [op |-> "validateHtmlNode",
                                  html |-> validated.html, content |-> <<>>])
    /\ UNCHANGED <<code, i, currentNode, scope, status, position, blocks>>

\* stringify(root), which returns stringifyRoot(root)
StringifyRootCall ==
    /\ Len(tok) < MaxCalls
    /\ LET rendered == StringifyRoot(nodes, 1)
       IN  /\ nodes' = rendered.nodes
           /\ result' = rendered.content
           /\ tok' = Append(tok, [op |-> "stringifyRoot",
                                  html |-> rendered.html,
                                  content |-> rendered.content])
    /\ UNCHANGED <<code, i, currentNode, scope, status, position, blocks>>

NextDocument ==
    \/ ValidateHtmlNodeCall
    \/ StringifyRootCall

SpecDocument == InitDocument /\ [][NextDocument]_vars

\* The tree below an object of the heap, children as trees.
RECURSIVE Unfold(_, _)
Unfold(ns, id) ==
    [ns[id] EXCEPT
        !.children = [k \in 1..Len(ns[id].children) |->
                          Unfold(ns, ns[id].children[k])]]

\* The names of the children of an object.
ChildNames(ns, id) ==
    [k \in 1..Len(ns[id].children) |-> ns[ns[id].children[k]].name]

\* The step is the first call on the document, and it is stringify(root).
FirstRender == tok = <<>> /\ Len(tok') = 1 /\ tok'[1].op = "stringifyRoot"

\* C18: rendering the document root gives the banner, <!DOCTYPE html>, and
\* one normalized html element: for a document with no html, head or body
\* the html element has two children, a head holding the four metadata
\* defaults and then a body holding the original top-level nodes in order.
C18_RootRendersNormalizedHtml ==
    [][(/\ FirstRender
        /\ \A k \in 1..Len(nodes[1].children) :
               IsBodyContent(nodes, nodes[1].children[k]))
           => LET html == tok'[1].html
                  kids == nodes'[html].children
              IN  /\ StartsWith(tok'[1].content,
                                LegacyBanner \o <<"<">> \o HtmlName \o <<">">>)
                  /\ ChildNames(nodes', html) = <<HeadName, BodyName>>
                  /\ Len(nodes'[kids[1]].children) = 4
                  /\ nodes'[kids[2]].children = nodes[1].children]_vars

\* The step is the second call on the document, and both calls are
\* validateHtmlNode(root).
SecondValidation ==
    /\ Len(tok) = 1 /\ tok[1].op = "validateHtmlNode"
    /\ Len(tok') = 2 /\ tok'[2].op = "validateHtmlNode"

\* C19: normalization is idempotent: a second validateHtmlNode on the tree
\* left by a first one changes nothing below root (no node added, duplicated
\* or moved) and returns an html element structurally equal to the first.
C19_ValidateHtmlNodeIdempotent ==
    [][SecondValidation
           => /\ Unfold(nodes', 1) = Unfold(nodes, 1)
              /\ Unfold(nodes', tok'[2].html) = Unfold(nodes, tok[1].html)]_vars

\* C20: rendering is deterministic: rendering the root twice in a row, each
\* render normalizing first, yields two identical strings.
C20_RenderTwiceIdentical ==
    (/\ Len(tok) >= 2
     /\ tok[1].op = "stringifyRoot"
     /\ tok[2].op = "stringifyRoot")
        => tok[1].content = tok[2].content

-----------------------------------------------------------------------------
(* The metadata of the head after normalization *)

\* The step is the first call on the document, and it is
\* validateHtmlNode(root).
FirstValidation ==
    tok = <<>> /\ Len(tok') = 1 /\ tok'[1].op = "validateHtmlNode"

\* The number of the objects ids of the heap ns that satisfy Test.
CountOf(ns, ids, Test(_, _)) ==
    Cardinality({k \in 1..Len(ids) : Test(ns, ids[k])})

IsCharsetMeta(ns, id) ==
    /\ ns[id].name = MetaName
    /\ \E j \in 1..Len(ns[id].attributes) :
           ns[id].attributes[j].name = CharsetAttributes[1].name

IsXuaMeta(ns, id) ==
    /\ ns[id].name = MetaName
    /\ \E j \in 1..Len(ns[id].attributes) :
           ns[id].attributes[j] = XuaAttributes[1]

IsViewportMeta(ns, id) ==
    /\ ns[id].name = MetaName
    /\ \E j \in 1..Len(ns[id].attributes) :
           ns[id].attributes[j] = ViewportAttributes[1]

IsTitle(ns, id) == ns[id].name = TitleName

\* The text of the title validateMeta makes.
Untitled ==
    <<"U", "n", "t", "i", "t", "l", "e", "d">>

\* The head of the document before normalization: the head child of the
\* html child of root, or else the head child of root; 0 for none.
HeadBefore(ns) ==
    LET html == Find(ns, ns[1].children, HtmlName)
        inHtml == IF html = 0 THEN 0 ELSE Find(ns, ns[html].children, HeadName)
    IN  IF inHtml # 0 THEN inHtml ELSE Find(ns, ns[1].children, HeadName)

\* The number of pieces Test among the children of the head before
\* normalization, 0 when there was no head.
PiecesBefore(ns, Test(_, _)) ==
    IF HeadBefore(ns) = 0 THEN 0
    ELSE CountOf(ns, ns[HeadBefore(ns)].children, Test)

\* After normalization the head has the piece; it is a new one only if the
\* head had none before.
PieceEnsured(before, after, head, Test(_, _)) ==
    LET had == PiecesBefore(before, Test)
        has == CountOf(after, after[head].children, Test)
    IN  has >= 1 /\ has = (IF had = 0 THEN 1 ELSE had)

\* C21: after normalization the returned html element has a head child that
\* contains a charset meta, an X-UA-Compatible meta, a viewport meta and a
\* title; a piece the head already contained is not added again, and a
\* missing title is added with the text Untitled.
C21_HeadHoldsTheFourDefaults ==
    [][FirstValidation
           => LET html == tok'[1].html
                  head == Find(nodes', nodes'[html].children, HeadName)
              IN  /\ head # 0
                  /\ PieceEnsured(nodes, nodes', head, IsCharsetMeta)
                  /\ PieceEnsured(nodes, nodes', head, IsXuaMeta)
                  /\ PieceEnsured(nodes, nodes', head, IsViewportMeta)
                  /\ PieceEnsured(nodes, nodes', head, IsTitle)
                  /\ PiecesBefore(nodes, IsTitle) = 0
                         => \E k \in 1..Len(nodes'[head].children) :
                                LET title == nodes'[head].children[k]
                                IN  /\ IsTitle(nodes', title)
                                    /\ Len(nodes'[title].children) = 1
                                    /\ nodes'[nodes'[title].children[1]].value
                                           = Untitled]_vars

-----------------------------------------------------------------------------
(* The quoted literal AstTextNode.parse matches *)

\* The number of consecutive backslashes that end just before position q.
RunBefore(s, q) ==
    Max({r \in 0..(q - 1) : \A j \in (q - r)..(q - 1) : s[j] = BSL})

\* The first position after the first where the character of the first
\* position stands again after an even number of backslashes; 0 for none.
FirstUnescapedQuote(s) ==
    LET at == {q \in 2..Len(s) : s[q] = s[1] /\ RunBefore(s, q) % 2 = 0}
    IN  IF at = {} THEN 0 ELSE Min(at)

\* C22: AstTextNode.parse at an opening quote matches up to and including
\* the first later occurrence of the same quote that follows an even number
\* of consecutive backslashes, on a source of one line; the length consumed
\* is the whole literal, and the content of the node is the text strictly
\* between the two quotes.
C22_TextMatchesToFirstUnescapedQuote ==
    (/\ status \in {"parsed", "null"}
     /\ code # <<>>
     /\ code[1] \in Quotes
     /\ FirstUnescapedQuote(code) # 0)
        => /\ status = "parsed"
           /\ nodes[2].position.length = FirstUnescapedQuote(code)
           /\ nodes[2].position.start.index = 0
           /\ nodes[2].name = SubSeq(code, 2, FirstUnescapedQuote(code) - 1)

\* C22's case: a parsed literal that holds an escaped quote and the other
\* quotation mark, and is followed by more text.
C22_Witness ==
    /\ status = "parsed"
    /\ code = <<SQ, BSL, SQ, DQ, SQ, SQ>>
    /\ nodes[2].name = <<BSL, SQ, DQ>>
    /\ nodes[2].position.length = 5

-----------------------------------------------------------------------------
(* The scan specification: AstFileNode.parse on sources that also hold a   *)
(* character at which the selector expression matches the empty string.    *)

MaxScanLen == 4

ScanAlphabet == {"a", "]", ";", "{", "}", DQ, SP}

InitScan ==
    /\ code \in SeqsUpTo(ScanAlphabet, MaxScanLen)
    /\ i = 0
    /\ currentNode = 1
    /\ scope = 1
    /\ nodes = <<FileNode(code)>>
    /\ status = "scan"
    /\ position = NaNPosition
    /\ result = <<>>
    /\ blocks = <<>>
    /\ tok = <<>>

SpecScan == InitScan /\ [][Next]_vars

\* C23: AstFileNode.parse terminates: every iteration of the scan loop
\* stops the scan, raises, or strictly advances the cursor, and every node
\* appended by a successful match has a source span of length at least 1.
C23_EveryIterationAdvances ==
    [][/\ (status = "scan" /\ status' = "scan") => i' > i
       /\ Len(nodes') > Len(nodes) => Last(nodes').position.length >= 1]_vars

-----------------------------------------------------------------------------
(* Sources with balanced braces *)

\* The sources of the claim, read from position p with depth blocks open:
\* white space and ';', '{' and a '}' that closes an open block, a selector
\* (a run of a) that is followed by ';', by '{' or by the next element of
\* its statement, and a closed string that is followed by ';'.
RECURSIVE WellFormedFrom(_, _, _)
WellFormedFrom(s, p, depth) ==
    IF p > Len(s) THEN depth = 0
    ELSE IF s[p] \in {SP, ";"} THEN WellFormedFrom(s, p + 1, depth)
    ELSE IF s[p] = "{" THEN WellFormedFrom(s, p + 1, depth + 1)
    ELSE IF s[p] = "}" THEN depth > 0 /\ WellFormedFrom(s, p + 1, depth - 1)
    ELSE IF s[p] = DQ
         THEN LET close == {q \in (p + 1)..Len(s) : s[q] = DQ}
                  after == SpaceRunEnd(s, Min(close) + 1)
              IN  /\ close # {}
                  /\ after <= Len(s)
                  /\ s[after] = ";"
                  /\ WellFormedFrom(s, after, depth)
    ELSE LET stop == {q \in p..Len(s) : s[q] # "a"}
             after == SpaceRunEnd(s, Min(stop))
         IN  /\ stop # {}
             /\ after <= Len(s)
             /\ s[after] \in {";", "{", "a", DQ}
             /\ WellFormedFrom(s, after, depth)

\* The parse has ended, by a return or by an error.
ParseEnded == status \in {"done", "error"}

\* C24: a source whose braces are balanced and properly nested, made of
\* control characters, well-formed selectors and closed strings each ended
\* by ';', is consumed whole without an error: a '}' raises only when no
\* block is open.
C24_BalancedSourceIsConsumed ==
    (ParseEnded /\ WellFormedFrom(code, 1, 0))
        => /\ status = "done"
           /\ \A k \in (i + 1)..Len(code) : code[k] \in WhiteSpace

-----------------------------------------------------------------------------
(* Text nodes have no children *)

\* C25: during AstFileNode.parse no Text node has children: a text or
\* selector match that directly follows a text node, with no ';' and no
\* block boundary in between, raises an error and leaves the tree built so
\* far unchanged.
C25_TextNodesHaveNoChildren ==
    /\ [](\A n \in 1..Len(nodes) :
             nodes[n].type = "Text" => nodes[n].children = <<>>)
    /\ [][(NodeMatched /\ LastTok = "text")
             => (status' = "error" /\ nodes' = nodes)]_vars

\* C25's case: in "a""" the second string is matched right after the first,
\* the parse has raised, and the first text node is still without children.
C25_Witness ==
    /\ status = "error"
    /\ code = <<DQ, "a", DQ, DQ, DQ>>
    /\ tok = <<"text", "throw">>
    /\ Len(nodes) = 2
    /\ nodes[2].type = "Text"
    /\ nodes[2].children = <<>>

-----------------------------------------------------------------------------
(* matchBlock of the first parser *)

\* The indices, in code.slice(sliceIndex), of the brackets that matchAll
\* yields, in order.
RECURSIVE Brackets(_, _, _)
Brackets(c, sliceIndex, k) ==
    IF sliceIndex + k >= Len(c) THEN <<>>
    ELSE IF c[sliceIndex + k + 1] \in {"{", "}"}
         THEN <<k>> \o Brackets(c, sliceIndex, k + 1)
         ELSE Brackets(c, sliceIndex, k + 1)

\* The loop of matchBlock over the brackets left, with the values openBlocks
\* and index have before the iteration.
RECURSIVE MatchBlockLoop(_, _, _, _, _)
MatchBlockLoop(c, sliceIndex, brackets, openBlocks, index) ==
    IF brackets = <<>> THEN [threw |-> TRUE, index |-> index]
    ELSE LET bracket == Head(brackets)
             opened == IF c[sliceIndex + bracket + 1] = "{"
                       THEN openBlocks + 1 ELSE openBlocks - 1
             moved == index + bracket
         IN  IF opened = 0 THEN [threw |-> FALSE, index |-> moved]
             ELSE MatchBlockLoop(c, sliceIndex, Tail(brackets), opened, moved)

\* matchBlock(code, sliceIndex): the index it returns, or the throw of
\* 'Missing closing bracket'.
MatchBlock(c, sliceIndex) ==
    MatchBlockLoop(c, sliceIndex, Brackets(c, sliceIndex, 0), 0, sliceIndex)

MaxBlockLen == 5

BlockAlphabet == {"a", "{", "}"}

InitBlock ==
    /\ code \in SeqsUpTo(BlockAlphabet, MaxBlockLen)
    /\ i = 0
    /\ currentNode = 1
    /\ scope = 1
    /\ nodes = <<>>
    /\ status = "new"
    /\ position = NaNPosition
    /\ result = <<>>
    /\ blocks = <<>>
    /\ tok = <<>>

\* matchBlock(code, sliceIndex) returns.
MatchBlockReturn(sliceIndex) ==
    /\ status = "new"
    /\ ~MatchBlock(code, sliceIndex).threw
    /\ result' = MatchBlock(code, sliceIndex).index
    /\ status' = "returned"
    /\ tok' = <<[op |-> "matchBlock", sliceIndex |-> sliceIndex]>>
    /\ UNCHANGED <<code, i, currentNode, scope, nodes, position, blocks>>

\* matchBlock(code, sliceIndex) throws 'Missing closing bracket'.
MatchBlockThrow(sliceIndex) ==
    /\ status = "new"
    /\ MatchBlock(code, sliceIndex).threw
    /\ status' = "error"
    /\ tok' = <<[op |-> "matchBlock", sliceIndex |-> sliceIndex]>>
    /\ UNCHANGED <<code, i, currentNode, scope, nodes, position, result, blocks>>

NextBlock ==
    \/ \E sliceIndex \in 0..Len(code) : MatchBlockReturn(sliceIndex)
    \/ \E sliceIndex \in 0..Len(code) : MatchBlockThrow(sliceIndex)

SpecBlock == InitBlock /\ [][NextBlock]_vars

\* The opening brackets less the closing brackets of c from index from to
\* index to, both included.
Depth(c, from, to) ==
    Cardinality({k \in from..to : c[k + 1] = "{"})
        - Cardinality({k \in from..to : c[k + 1] = "}"})

\* The indices at which the block opened at index from is closed.
ClosingBrackets(c, from) ==
    {q \in (from + 1)..(Len(c) - 1) : Depth(c, from, q) = 0}

\* C26: matchBlock(code, sliceIndex), called at an opening '{', returns the
\* index in code of the '}' that closes that block, whatever the depth of
\* the blocks inside it, and throws exactly when there is no such '}'.
C26_MatchBlockReturnsClosingBracket ==
    (/\ status \in {"returned", "error"}
     /\ tok[1].sliceIndex < Len(code)
     /\ code[tok[1].sliceIndex + 1] = "{")
        => LET closing == ClosingBrackets(code, tok[1].sliceIndex)
           IN  IF closing = {} THEN status = "error"
               ELSE status = "returned" /\ result = Min(closing)

=============================================================================
